---- MODULE Spec2Model ----
(***************************************************************************)
(* Model of the baroclinic cyclogenesis toy simulation (src/src/main.rs):  *)
(* Position, ThermalAnomaly, BaroclinicCyclogenesis and their operations.  *)
(*                                                                         *)
(* An f64 is modelled bit for bit: a sign, a significand of 53 bits and a  *)
(* binary exponent, with the subnormal numbers, the two zeros, the two     *)
(* infinities and NaN.  The significand is held in four limbs of 14 bits,  *)
(* so that every product fits a 32-bit integer.  Addition, subtraction,    *)
(* multiplication, division and the square root give the IEEE 754 result:  *)
(* the exact value rounded to nearest, ties to even; the literals of the   *)
(* source are the f64 nearest to them, comparisons with NaN are false and  *)
(* arithmetic on NaN gives NaN.                                            *)
(*                                                                         *)
(* f64::sin and f64::exp are the functions of the platform's libm, which   *)
(* Rust leaves unspecified in the last bit: a libm returns one of the two  *)
(* f64 next to the exact value, the nearer one except where the exact      *)
(* value lies close to the middle of the two (glibc's sin and exp err by   *)
(* up to 0.55 and 0.51 units of the last place).  The model sums the       *)
(* series on 70 bits and the variable libm, fixed from the initial state   *)
(* on as the libm of a build is, tells for each function which of the two  *)
(* it returns where the exact value lies within 1/16 of a unit of the      *)
(* middle: the nearer one or the farther one.  Elsewhere, and where the    *)
(* result is exact (sin of a zero, exp of a zero), there is one outcome.   *)
(***************************************************************************)
EXTENDS Integers, Sequences

(***************************************************************************)
(* f64 arithmetic                                                          *)
(***************************************************************************)
\* the base of the limbs: a natural number is the tuple of its digits in
\* base 2^14, the least significant first
Base == 16384

Pow2(k) == 2 ^ k

\* the i-th limb of N, 0 beyond its length
Limb(N, i) == IF 1 <= i /\ i <= Len(N) THEN N[i] ELSE 0

WindowAt(N, q, r) == (Limb(N, q + 1) \div Pow2(r)) + (Limb(N, q + 2) % Pow2(r)) * Pow2(14 - r)

\* the 14 bits of N from bit p on (bit 0 is the lowest; bits below it are 0)
Window(N, p) == WindowAt(N, p \div 14, p % 14)

\* the limbs of the number whose columns are C (column values of any sign),
\* followed by the carry out of the last column
RECURSIVE Carry(_, _, _)
Carry(C, i, c) ==
    IF i > Len(C) THEN <<c>>
    ELSE <<(C[i] + c) % Base>> \o Carry(C, i + 1, (C[i] + c) \div Base)

\* the number of bits of a limb
LimbBits(v) ==
    IF v < 128
    THEN IF v < 8 THEN (IF v < 2 THEN v ELSE IF v < 4 THEN 2 ELSE 3)
         ELSE IF v < 32 THEN (IF v < 16 THEN 4 ELSE 5)
         ELSE IF v < 64 THEN 6 ELSE 7
    ELSE IF v < 2048
         THEN IF v < 512 THEN (IF v < 256 THEN 8 ELSE 9)
              ELSE IF v < 1024 THEN 10 ELSE 11
         ELSE IF v < 8192 THEN (IF v < 4096 THEN 12 ELSE 13) ELSE 14

\* the highest non-zero limb among the first i limbs of N, 0 if none
RECURSIVE TopLimb(_, _)
TopLimb(N, i) == IF i = 0 THEN 0 ELSE IF N[i] # 0 THEN i ELSE TopLimb(N, i - 1)

BitLenAt(N, i) == IF i = 0 THEN 0 ELSE 14 * (i - 1) + LimbBits(N[i])

\* the number of bits of N
BitLen(N) == BitLenAt(N, TopLimb(N, Len(N)))

\* is a bit of N below bit p set
AnyBelow(N, p) ==
    /\ p > 0
    /\ \/ Limb(N, p \div 14 + 1) % Pow2(p % 14) # 0
       \/ TopLimb(N, IF p \div 14 < Len(N) THEN p \div 14 ELSE Len(N)) # 0

\* the 56 bits of N from bit k on, as four limbs
Mantissa(N, k) == <<Window(N, k), Window(N, k + 14), Window(N, k + 28), Window(N, k + 42)>>

NaN == [nan |-> TRUE, inf |-> FALSE, neg |-> FALSE, m |-> <<0, 0, 0, 0>>, e |-> 0]

\* 0.0 and -0.0
Zero(neg) == [nan |-> FALSE, inf |-> FALSE, neg |-> neg, m |-> <<0, 0, 0, 0>>, e |-> -1074]

\* f64::INFINITY and f64::NEG_INFINITY
Inf(neg) == [nan |-> FALSE, inf |-> TRUE, neg |-> neg, m |-> <<0, 0, 0, 0>>, e |-> 0]

\* the finite value (-1)^neg * M * 2^e: M is the 53-bit significand of an
\* f64, in four limbs, at least 2^52 for a normal number (-1074 <= e <= 971)
\* and less for a subnormal one (e = -1074)
Finite(neg, M, e) == [nan |-> FALSE, inf |-> FALSE, neg |-> neg, m |-> M, e |-> e]

IsZero(a) == ~a.nan /\ ~a.inf /\ a.m = <<0, 0, 0, 0>>

\* a significand that rounding has brought to 2^53 is 2^52 one exponent
\* up; above f64::MAX, (2^53 - 1) * 2^971, the value is infinite
Ranged(neg, M, e) ==
    IF M = <<0, 0, 0, 0>> THEN Zero(neg)
    ELSE IF M[4] >= 2048 THEN (IF e + 1 > 971 THEN Inf(neg) ELSE Finite(neg, <<0, 0, 0, 1024>>, e + 1))
    ELSE IF e > 971 THEN Inf(neg)
    ELSE Finite(neg, M, e)

Rounded(neg, M, e, up) == Ranged(neg, IF up THEN SubSeq(Carry(<<M[1] + 1, M[2], M[3], M[4]>>, 1, 0), 1, 4) ELSE M, e)

\* N * 2^e rounded at bit k of N: to nearest, ties to even; sticky tells
\* that the value is a little above N * 2^e
PackAt(neg, N, e, sticky, k) == Rounded(neg, Mantissa(N, k), e + k, k > 0 /\ Window(N, k - 1) % 2 = 1 /\ (sticky \/ AnyBelow(N, k - 1) \/ Window(N, k) % 2 = 1))

PackLen(neg, N, e, sticky, L) ==
    IF L = 0 THEN Zero(neg)
    ELSE PackAt(neg, N, e, sticky, IF e + L - 53 >= -1074 THEN L - 53 ELSE -1074 - e)

\* the f64 nearest to (-1)^neg * N * 2^e: 53 bits for a normal result, the
\* bits above 2^-1074 for a subnormal one
Pack(neg, N, e, sticky) == PackLen(neg, N, e, sticky, BitLen(N))

\* the libm of the build: for sin and for exp, "nearest" or "far"
VARIABLE libm

\* the bit at which N * 2^e is rounded
RoundAt(N, e) == IF e + BitLen(N) - 53 >= -1074 THEN BitLen(N) - 53 ELSE -1074 - e

\* the part of N below bit k lies within 1/16 of the middle of 0 and 2^k
NearTie(N, k) == k >= 4 /\ Window(N, k - 4) % 16 \in {7, 8}

\* N * 2^e, with a little more, rounded at bit k as a libm rounds: to the
\* nearer f64, or, when far, to the other one where the two are nearly as
\* near
LibmAt(neg, N, e, far, k) == Rounded(neg, Mantissa(N, k), e + k, k > 0 /\ ((Window(N, k - 1) % 2 = 1) # (far /\ NearTie(N, k))))

Libm(neg, N, e, far) == LibmAt(neg, N, e, far, RoundAt(N, e))

\* an integer as f64 (the cast "hour as f64", and literals such as 12.0)
Natural(neg, n) == Pack(neg, <<n % Base, (n \div Base) % Base, n \div (Base * Base)>>, 0, FALSE)

F(n) == Natural(n < 0, IF n < 0 THEN 0 - n ELSE n)

FNeg(a) == IF a.nan THEN NaN ELSE [a EXCEPT !.neg = ~a.neg]

\* X < Y for two significands
MLess(X, Y) ==
    \/ X[4] < Y[4]
    \/ X[4] = Y[4] /\ (\/ X[3] < Y[3]
                       \/ X[3] = Y[3] /\ (X[2] < Y[2] \/ (X[2] = Y[2] /\ X[1] < Y[1])))

\* |a| < |b| for two values that are not NaN
MagLess(a, b) == ~a.inf /\ (b.inf \/ a.e < b.e \/ (a.e = b.e /\ MLess(a.m, b.m)))

\* the significand X with its lowest bit set when bits were shifted out
Jam(X, sticky) == IF sticky /\ X[1] % 2 = 0 THEN <<X[1] + 1, X[2], X[3], X[4]>> ELSE X

\* H + s * L for two significands with three more bits each
AddMag(neg, H, L, s, e) == Pack(neg, Carry(<<H[1] + s * L[1], H[2] + s * L[2], H[3] + s * L[3], H[4] + s * L[4]>>, 1, 0), e, FALSE)

\* hi + lo for two finite non-zero values, |hi| >= |lo|: lo is brought to
\* the exponent of hi, keeping three bits below it
AddOrdered(hi, lo) ==
    IF hi.neg # lo.neg /\ hi.e = lo.e /\ hi.m = lo.m THEN Zero(FALSE)
    ELSE AddMag(hi.neg, Mantissa(hi.m, -3), Jam(Mantissa(lo.m, hi.e - lo.e - 3), AnyBelow(lo.m, hi.e - lo.e - 3)), IF hi.neg = lo.neg THEN 1 ELSE -1, hi.e - 3)

\* a + b for two finite values
AddFinite(a, b) ==
    IF IsZero(a) THEN (IF IsZero(b) THEN Zero(a.neg /\ b.neg) ELSE b)
    ELSE IF IsZero(b) THEN a
    ELSE AddOrdered(IF MagLess(a, b) THEN b ELSE a, IF MagLess(a, b) THEN a ELSE b)

FAdd(a, b) ==
    IF a.nan \/ b.nan THEN NaN
    ELSE IF a.inf /\ b.inf THEN (IF a.neg = b.neg THEN a ELSE NaN)
    ELSE IF a.inf THEN a
    ELSE IF b.inf THEN b
    ELSE AddFinite(a, b)

\* the columns of X * Y for two significands
Columns(X, Y) == <<X[1] * Y[1], X[1] * Y[2] + X[2] * Y[1], X[1] * Y[3] + X[2] * Y[2] + X[3] * Y[1], X[1] * Y[4] + X[2] * Y[3] + X[3] * Y[2] + X[4] * Y[1], X[2] * Y[4] + X[3] * Y[3] + X[4] * Y[2], X[3] * Y[4] + X[4] * Y[3], X[4] * Y[4]>>

FMul(a, b) ==
    IF a.nan \/ b.nan THEN NaN
    ELSE IF a.inf \/ b.inf THEN (IF IsZero(a) \/ IsZero(b) THEN NaN ELSE Inf(a.neg # b.neg))
    ELSE IF IsZero(a) \/ IsZero(b) THEN Zero(a.neg # b.neg)
    ELSE Pack(a.neg # b.neg, Carry(Columns(a.m, b.m), 1, 0), a.e + b.e, FALSE)

\* how far the significand M is from having 53 bits (0 for a normal number)
Shift(M) == IF M[4] >= 1024 THEN 0 ELSE BitLen(M) - 53

\* T + D while T, a number in five limbs and a sign, is negative, and q
\* less one each time: T is R * 2^14 - q * D for the trial digit q, which
\* is the digit or up to two more
RECURSIVE DivFix(_, _, _)
DivFix(T, D, q) ==
    IF T[6] >= 0 THEN <<q, T>>
    ELSE DivFix(Carry(<<T[1] + D[1], T[2] + D[2], T[3] + D[3], T[4] + D[4], T[5] + T[6] * Base>>, 1, 0), D, q - 1)

DivTry(R, D, q) == DivFix(Carry(<<0 - q * D[1], R[1] - q * D[2], R[2] - q * D[3], R[3] - q * D[4], R[4]>>, 1, 0), D, q)

\* the trial digit of R / D from their leading limbs: the digit or up to
\* two more
DivGuess(R, D) == IF (R[4] * Base + R[3]) \div D[4] < Base THEN (R[4] * Base + R[3]) \div D[4] ELSE Base - 1

\* one more limb of the quotient: S is the number of limbs still to come,
\* the quotient so far, lowest limb first, and what is left of R
DivNext(S, qT) == <<S[1] - 1, <<qT[1]>> \o S[2], SubSeq(qT[2], 1, 4)>>

\* the limbs of the quotient R / D, for R < D and D of 56 bits: the
\* quotient and what is left of R
RECURSIVE DivLoop(_, _)
DivLoop(D, S) ==
    IF S[1] = 0 THEN <<S[2], S[3]>>
    ELSE DivLoop(D, DivNext(S, DivTry(S[3], D, DivGuess(S[3], D))))

DivPack(neg, QR, e) == Pack(neg, QR[1], e, QR[2] # <<0, 0, 0, 0>>)

\* a / b for two finite non-zero values: 56 bits of the quotient of the
\* two significands, brought to 53 bits each
DivFinite(a, b) == DivPack(a.neg # b.neg, DivLoop(Mantissa(b.m, Shift(b.m) - 3), <<4, <<>>, Mantissa(a.m, Shift(a.m) - 2)>>), a.e + Shift(a.m) - b.e - Shift(b.m) - 55)

FDiv(a, b) ==
    IF a.nan \/ b.nan THEN NaN
    ELSE IF a.inf THEN (IF b.inf THEN NaN ELSE Inf(a.neg # b.neg))
    ELSE IF b.inf THEN Zero(a.neg # b.neg)
    ELSE IF IsZero(b) THEN (IF IsZero(a) THEN NaN ELSE Inf(a.neg # b.neg))
    ELSE IF IsZero(a) THEN Zero(a.neg # b.neg)
    ELSE DivFinite(a, b)

\* 10^k as f64, exact for 0 <= k <= 22
RECURSIVE Ten(_)
Ten(k) ==
    IF k <= 9
    THEN F(<<1, 10, 100, 1000, 10000, 100000, 1000000, 10000000, 100000000, 1000000000>>[k + 1])
    ELSE FMul(F(1000000000), Ten(k - 9))

\* the literal m * 10^e, e.g. Dec(72921, -9) is 7.2921e-5: for -22 <= e <=
\* 22 the integer and the power of ten are exact and one rounding gives the
\* f64 nearest to the literal
Dec(m, e) == IF e >= 0 THEN FMul(F(m), Ten(e)) ELSE FDiv(F(m), Ten(0 - e))

\* a < b for two values that are not NaN
Less(a, b) ==
    IF IsZero(a) /\ IsZero(b) THEN FALSE
    ELSE IF a.neg # b.neg THEN a.neg
    ELSE IF a.neg THEN MagLess(b, a)
    ELSE MagLess(a, b)

FLt(a, b) == ~a.nan /\ ~b.nan /\ Less(a, b)

FGt(a, b) == FLt(b, a)

FLe(a, b) == ~a.nan /\ ~b.nan /\ ~Less(b, a)

\* (lo..=hi).contains(&x)
Contains(lo, hi, x) == FLe(lo, x) /\ FLe(x, hi)

\* the largest g with g * g <= t, by Newton's iteration from a g above it
RECURSIVE ISqrt(_, _)
ISqrt(t, g) == IF (g + t \div g) \div 2 >= g THEN g ELSE ISqrt(t, (g + t \div g) \div 2)

\* one step of Newton's iteration towards the square root of z: (y + z / y) / 2
SqrtStep(z, y) == [FAdd(y, FDiv(z, y)) EXCEPT !.e = @ - 1]

\* the significand of y, a number of [1, 2], on the scale 2^-52
SqrtGuess(y) == IF y.e > -52 THEN <<Base - 1, Base - 1, Base - 1, 2047>> ELSE IF y.e < -52 THEN <<0, 0, 0, 1024>> ELSE y.m

\* the sign of A - B for two numbers of i limbs
RECURSIVE Cmp(_, _, _)
Cmp(A, B, i) == IF i = 0 THEN 0 ELSE IF A[i] < B[i] THEN -1 ELSE IF A[i] > B[i] THEN 1 ELSE Cmp(A, B, i - 1)

\* 2 * R + d for d = 1 or -1
Twice(R, d) == SubSeq(Carry(<<2 * R[1] + d, 2 * R[2], 2 * R[3], 2 * R[4]>>, 1, 0), 1, 4)

\* (2 * R + d)^2, in eight limbs
TwiceSquared(T) == Carry(Columns(T, T), 1, 0)

\* M * 2^u in eight limbs, for u = 54 or 55
SqrtTarget(M, u) == <<0, 0, 0, Window(M, 42 - u), Window(M, 56 - u), Window(M, 70 - u), Window(M, 84 - u), Window(M, 98 - u)>>

\* the integer nearest to the square root of N, from R near it: the R with
\* (2R - 1)^2 < 4N < (2R + 1)^2, W being 4N (no square root of such an N
\* is half way between two integers)
RECURSIVE SqrtAdjust(_, _)
SqrtAdjust(R, W) ==
    IF Cmp(TwiceSquared(Twice(R, 1)), W, 8) < 0 THEN SqrtAdjust(SubSeq(Carry(<<R[1] + 1, R[2], R[3], R[4]>>, 1, 0), 1, 4), W)
    ELSE IF Cmp(TwiceSquared(Twice(R, -1)), W, 8) > 0 THEN SqrtAdjust(SubSeq(Carry(<<R[1] - 1, R[2], R[3], R[4]>>, 1, 0), 1, 4), W)
    ELSE R

\* g * 2^-14
SqrtSeed(g) == Pack(FALSE, <<g % Base, g \div Base>>, -14, FALSE)

\* n steps of Newton's iteration from y
RECURSIVE SqrtSteps(_, _, _)
SqrtSteps(z, y, n) == IF n = 0 THEN y ELSE SqrtSteps(z, SqrtStep(z, y), n - 1)

\* the square root of z from the guess y of 15 bits: two steps of Newton's
\* iteration give all the bits but the last, which SqrtAdjust settles
SqrtNewton(z, y, W) == SqrtAdjust(SqrtGuess(SqrtSteps(z, y, 2)), W)

\* the square root of M * 2^e for a significand M of 53 bits, p the parity
\* of e: the root of N = M * 2^(52 + p) rounded to an integer, times
\* 2^((e - p - 52) / 2); t is the 29 + p leading bits of M
SqrtFinite(M, e, p, t) == Ranged(FALSE, SqrtNewton(Finite(FALSE, M, p - 52), SqrtSeed(ISqrt(t, 32768)), SqrtTarget(M, 54 + p)), (e - p - 52) \div 2)

SqrtParity(M, e, p) == SqrtFinite(M, e, p, (M[4] * 262144 + M[3] * 16 + M[2] \div 1024) * (1 + p) + p * ((M[2] \div 512) % 2))

\* f64::sqrt
FSqrt(x) ==
    IF x.nan THEN NaN
    ELSE IF IsZero(x) THEN x
    ELSE IF x.neg THEN NaN
    ELSE IF x.inf THEN x
    ELSE SqrtParity(Mantissa(x.m, Shift(x.m)), x.e + Shift(x.m), (x.e + Shift(x.m)) % 2)

\* |x| = M * 2^e as a fixed-point number: five limbs below the point (70
\* bits) and one above
Fixed(M, e) == <<Window(M, 0 - e - 70), Window(M, 0 - e - 56), Window(M, 0 - e - 42), Window(M, 0 - e - 28), Window(M, 0 - e - 14), Window(M, 0 - e)>>

\* T * Y for two fixed-point numbers, T below 1
FixedMul(T, Y) == SubSeq(Carry(<<T[1] * Y[4] + T[2] * Y[3] + T[3] * Y[2] + T[4] * Y[1], T[1] * Y[5] + T[2] * Y[4] + T[3] * Y[3] + T[4] * Y[2] + T[5] * Y[1], T[1] * Y[6] + T[2] * Y[5] + T[3] * Y[4] + T[4] * Y[3] + T[5] * Y[2], T[2] * Y[6] + T[3] * Y[5] + T[4] * Y[4] + T[5] * Y[3], T[3] * Y[6] + T[4] * Y[5] + T[5] * Y[4], T[4] * Y[6] + T[5] * Y[5], T[5] * Y[6]>>, 1, 0), 3, 8)

\* the limbs of X / d from limb i down, the most significant first, for a
\* small d and r left from the limbs above
RECURSIVE DivDown(_, _, _, _)
DivDown(X, d, i, r) ==
    IF i = 0 THEN <<>>
    ELSE <<(r * Base + X[i]) \div d>> \o DivDown(X, d, i - 1, (r * Base + X[i]) % d)

Reversed(Q) == <<Q[6], Q[5], Q[4], Q[3], Q[2], Q[1]>>

\* X / d for a fixed-point X and a small d
DivSmall(X, d) == Reversed(DivDown(X, d, 6, 0))

Plus(A, T, s) == <<A[1] + s * T[1], A[2] + s * T[2], A[3] + s * T[3], A[4] + s * T[4], A[5] + s * T[5], A[6] + s * T[6]>>

\* sin(x) / x = 1 - y/3! + y^2/5! - ... for y = x^2: S[1] is the k-th term,
\* of sign s, and S[2] the columns of the sum of the terms before it
RECURSIVE SinSeries(_, _, _, _)
SinSeries(Y, k, s, S) ==
    IF S[1] = <<0, 0, 0, 0, 0, 0>> THEN Carry(S[2], 1, 0)
    ELSE SinSeries(Y, k + 1, 0 - s, <<DivSmall(FixedMul(S[1], Y), (2 * k + 2) * (2 * k + 3)), Plus(S[2], S[1], s)>>)

\* the columns of M * S for a significand M and a fixed-point S
Columns6(X, Y) == <<X[1] * Y[1], X[1] * Y[2] + X[2] * Y[1], X[1] * Y[3] + X[2] * Y[2] + X[3] * Y[1], X[1] * Y[4] + X[2] * Y[3] + X[3] * Y[2] + X[4] * Y[1], X[1] * Y[5] + X[2] * Y[4] + X[3] * Y[3] + X[4] * Y[2], X[1] * Y[6] + X[2] * Y[5] + X[3] * Y[4] + X[4] * Y[3], X[2] * Y[6] + X[3] * Y[5] + X[4] * Y[4], X[3] * Y[6] + X[4] * Y[5], X[4] * Y[6]>>

SinFinite(x, Y, far) == Libm(x.neg, Carry(Columns6(x.m, SinSeries(Y, 1, -1, <<DivSmall(Y, 6), <<0, 0, 0, 0, 0, 1>>>>)), 1, 0), x.e - 70, far)

\* the square of a fixed-point number: its part below the point times X,
\* and its part above times X
Square(X) == SubSeq(Carry(Plus(FixedMul(X, X), X, X[6]), 1, 0), 1, 6)

\* sin(x) for |x| < 2 (the program calls it on [-pi/2, pi/2] only) as a
\* libm returns it: x times the series of sin(x) / x, summed on 70 bits
Sin(x, far) ==
    IF x.nan \/ x.inf THEN NaN
    ELSE IF IsZero(x) THEN x
    ELSE SinFinite(x, Square(Fixed(x.m, x.e)), far)

\* f64::sin
FSin(x) == Sin(x, libm.sin = "far")

\* ln 2 as a fixed-point number: 0.693147180559945309417...
Ln2 == <<10994, 3961, 8007, 8575, 11356, 0>>

\* s * (X - k * ln 2) for a fixed-point X, and its sign (0 or -1) as a
\* seventh limb
ExpRest(X, k, s) == Carry(<<s * (X[1] - k * Ln2[1]), s * (X[2] - k * Ln2[2]), s * (X[3] - k * Ln2[3]), s * (X[4] - k * Ln2[4]), s * (X[5] - k * Ln2[5]), s * X[6]>>, 1, 0)

\* the largest k from k on with k * ln 2 <= X
RECURSIVE ExpFloor(_, _)
ExpFloor(X, k) == IF ExpRest(X, k + 1, 1)[7] >= 0 THEN ExpFloor(X, k + 1) ELSE k

\* exp(r) = 1 + r + r^2/2! + ... for 0 <= r < ln 2: S[1] is the n-th term
\* and S[2] the columns of the sum of the terms before it
RECURSIVE ExpSeries(_, _, _)
ExpSeries(R, n, S) ==
    IF S[1] = <<0, 0, 0, 0, 0, 0>> THEN Carry(S[2], 1, 0)
    ELSE ExpSeries(R, n + 1, <<DivSmall(FixedMul(S[1], R), n + 1), Plus(S[2], S[1], 1)>>)

ExpPack(R, k, far) == Libm(FALSE, ExpSeries(R, 1, <<R, <<0, 0, 0, 0, 0, 1>>>>), k - 70, far)

\* exp(x) = 2^k * exp(x - k * ln 2) for k = floor(x / ln 2), the series
\* summed on 70 bits
ExpFinite(neg, X, k, far) ==
    IF neg THEN ExpPack(SubSeq(ExpRest(X, k + 1, -1), 1, 6), 0 - k - 1, far)
    ELSE ExpPack(SubSeq(ExpRest(X, k, 1), 1, 6), k, far)

ExpReduce(neg, X, far) == ExpFinite(neg, X, ExpFloor(X, ((X[6] * 256 + X[5] \div 64) * 1477) \div 262144), far)

\* exp(x) as a libm returns it
Exp(x, far) ==
    IF x.nan THEN NaN
    ELSE IF x.inf THEN (IF x.neg THEN Zero(FALSE) ELSE x)
    ELSE IF IsZero(x) THEN F(1)
    ELSE IF x.e + BitLen(x.m) > 11 THEN (IF x.neg THEN Zero(FALSE) ELSE Inf(FALSE))
    ELSE ExpReduce(x.neg, Fixed(x.m, x.e), far)

\* f64::exp
FExp(x) == Exp(x, libm.exp = "far")

(***************************************************************************)
(* PhysicalConstants, MeteoError, Position                                 *)
(***************************************************************************)
\* std::f64::consts::PI, 0x400921FB54442D18
PI == Finite(FALSE, <<11544, 4368, 8117, 1608>>, -51)

\* impl Default for PhysicalConstants
PhysicalConstants_default ==
    [earth_omega |-> Dec(72921, -9),
     gravity     |-> Dec(981, -2),
     base_temp   |-> Dec(28815, -2)]

Ok(v) == [ok |-> TRUE, val |-> v]

Err(kind, value) == [ok |-> FALSE, err |-> [kind |-> kind, value |-> value]]

\* Position::new
Position_new(latitude, altitude, pressure) ==
    IF ~Contains(F(-90), F(90), latitude)
    THEN Err("InvalidLatitude", latitude)
    ELSE IF FLt(altitude, F(-400)) \/ FGt(altitude, F(20000))
    THEN Err("InvalidAltitude", altitude)
    ELSE IF FLt(pressure, F(100)) \/ FGt(pressure, F(1100))
    THEN Err("InvalidPressure", pressure)
    ELSE Ok([latitude |-> latitude, altitude |-> altitude,
             pressure |-> pressure])

(***************************************************************************)
(* ThermalAnomaly                                                          *)
(***************************************************************************)
\* mutant: an anomaly of temperature_delta 0 counts as cyclonic
ThermalAnomaly_new_ge(temperature_delta, position, constants) ==
    IF ~Contains(F(-50), F(50), temperature_delta)
    THEN Err("InvalidTemperature", temperature_delta)
    ELSE Ok([temperature_delta |-> temperature_delta,
             position          |-> position,
             is_cyclonic       |-> ~FLt(temperature_delta, F(0)),
             intensity         |-> F(1),
             constants         |-> constants])

\* ThermalAnomaly::new
ThermalAnomaly_new(temperature_delta, position, constants) ==
    IF ~Contains(F(-50), F(50), temperature_delta)
    THEN Err("InvalidTemperature", temperature_delta)
    ELSE Ok([temperature_delta |-> temperature_delta,
             position          |-> position,
             is_cyclonic       |-> FGt(temperature_delta, F(0)),
             intensity         |-> F(1),
             constants         |-> constants])

compute_coriolis_force(self) ==
    FMul(self.constants.earth_omega,
         FSin(FDiv(FMul(self.position.latitude, PI), F(180))))

RADIUS == Dec(5, 5)

AMPLIFICATION == Dec(1, 3)

\* x if keep, -x otherwise: the operand that the two branches of an "if" of
\* the source negate or not
Signed(keep, x) == IF keep THEN x ELSE FNeg(x)

\* mutant: the vorticity does not depend on is_cyclonic
compute_relative_vorticity_unsigned(self, thermal_wind) ==
    LET base_vorticity  == FDiv(thermal_wind, RADIUS)
        altitude_factor == IF FLt(self.position.pressure, F(500))
                           THEN F(2) ELSE F(1)
    IN  FMul(FMul(FMul(base_vorticity, self.intensity),
                  altitude_factor), AMPLIFICATION)

compute_relative_vorticity(self, thermal_wind) ==
    LET base_vorticity  == FDiv(thermal_wind, RADIUS)
        altitude_factor == IF FLt(self.position.pressure, F(500))
                           THEN F(2) ELSE F(1)
    IN  FMul(FMul(FMul(Signed(self.is_cyclonic, base_vorticity),
                       self.intensity),
                  altitude_factor), AMPLIFICATION)

\* mutant: the intensity grows by hour/12 at each step
update_intensity_accumulate(self, hour) ==
    [self EXCEPT !.intensity = FAdd(self.intensity, FDiv(F(hour), F(12)))]

\* the anomaly after "self.intensity = 1.0 + (hour as f64 / 12.0)"
update_intensity(self, hour) ==
    [self EXCEPT !.intensity = FAdd(F(1), FDiv(F(hour), F(12)))]

\* the thermal wind of develop_baroclinic_perturbation
thermal_wind_of(self) ==
    LET coriolis  == compute_coriolis_force(self)
        base_wind == FMul(FMul(FDiv(self.temperature_delta,
                                    self.constants.base_temp),
                               self.constants.gravity), F(1000))
    IN  FMul(Signed(self.is_cyclonic, base_wind), coriolis)

pressure_factor_of(self) == FSqrt(FDiv(F(1000), self.position.pressure))

altitude_factor_of(self) ==
    FExp(FDiv(FNeg(self.position.altitude), F(8000)))

\* mutant: the velocity keeps its sign at exactly 500 hPa
vertical_velocity_of_ge(self, thermal_wind) ==
    LET pressure_factor == pressure_factor_of(self)
        altitude_factor == altitude_factor_of(self)
    IN  FMul(FMul(FMul(FMul(Signed(~FLt(self.position.pressure, F(500)),
                                   thermal_wind),
                            Dec(1, -1)),
                       pressure_factor), altitude_factor),
             self.intensity)

\* the vertical velocity of develop_baroclinic_perturbation
vertical_velocity_of(self, thermal_wind) ==
    LET pressure_factor == pressure_factor_of(self)
        altitude_factor == altitude_factor_of(self)
    IN  FMul(FMul(FMul(FMul(Signed(FGt(self.position.pressure, F(500)),
                                   thermal_wind),
                            Dec(1, -1)),
                       pressure_factor), altitude_factor),
             self.intensity)

\* the DevelopmentResult of develop_baroclinic_perturbation
DevelopmentResult_of(self, thermal_wind, hour) ==
    [vertical_velocity  |-> vertical_velocity_of(self, thermal_wind),
     relative_vorticity |-> compute_relative_vorticity(self, thermal_wind),
     hour               |-> hour]

\* develop_baroclinic_perturbation from the line after the one on intensity
develop_from(self, hour) ==
    [self   |-> self,
     result |-> DevelopmentResult_of(self, thermal_wind_of(self), hour)]

\* develop_baroclinic_perturbation(&mut self, hour): the anomaly it leaves
\* and the DevelopmentResult it returns
develop_baroclinic_perturbation(self0, hour) ==
    develop_from(update_intensity(self0, hour), hour)

(***************************************************************************)
(* BaroclinicCyclogenesis                                                  *)
(***************************************************************************)
\* mutant: the temperatures are validated before the latitude
BaroclinicCyclogenesis_new_temps_first(surface_temp, altitude_temp, latitude) ==
    LET constants         == PhysicalConstants_default
        surface_position  == Position_new(latitude, F(0), F(1013))
        altitude_position == Position_new(latitude, F(5000), F(500))
    IN  IF ~Contains(F(-50), F(50), surface_temp)
        THEN Err("InvalidTemperature", surface_temp)
        ELSE IF ~Contains(F(-50), F(50), altitude_temp)
        THEN Err("InvalidTemperature", altitude_temp)
        ELSE IF ~surface_position.ok THEN surface_position
        ELSE IF ~altitude_position.ok THEN altitude_position
        ELSE Ok([surface_anomaly  |->
                     ThermalAnomaly_new(surface_temp, surface_position.val,
                                        constants).val,
                 altitude_anomaly |->
                     ThermalAnomaly_new(altitude_temp, altitude_position.val,
                                        constants).val,
                 baroclinic_zone  |-> TRUE])

\* BaroclinicCyclogenesis::new; each "?" returns the first error unchanged
BaroclinicCyclogenesis_new(surface_temp, altitude_temp, latitude) ==
    LET constants         == PhysicalConstants_default
        surface_position  == Position_new(latitude, F(0), F(1013))
        altitude_position == Position_new(latitude, F(5000), F(500))
        surface_anomaly   == ThermalAnomaly_new(surface_temp,
                                 surface_position.val, constants)
        altitude_anomaly  == ThermalAnomaly_new(altitude_temp,
                                 altitude_position.val, constants)
    IN  IF ~surface_position.ok THEN surface_position
        ELSE IF ~altitude_position.ok THEN altitude_position
        ELSE IF ~surface_anomaly.ok THEN surface_anomaly
        ELSE IF ~altitude_anomaly.ok THEN altitude_anomaly
        ELSE Ok([surface_anomaly  |-> surface_anomaly.val,
                 altitude_anomaly |-> altitude_anomaly.val,
                 baroclinic_zone  |-> TRUE])

\* mutant: the interaction factor grows with hour/12
interaction_factor_12(self, hour) ==
    IF self.baroclinic_zone
    THEN FMul(Dec(15, -1), FAdd(F(1), FDiv(F(hour), F(12))))
    ELSE F(1)

\* the interaction factor of one hour of simulate_interaction
interaction_factor(self, hour) ==
    IF self.baroclinic_zone
    THEN FMul(Dec(15, -1), FAdd(F(1), FDiv(F(hour), F(24))))
    ELSE F(1)

\* the record simulate_interaction pushes for one hour
combined_result(self, surface_result, altitude_result, hour) ==
    [vertical_velocity  |->
         FMul(FAdd(surface_result.vertical_velocity,
                   altitude_result.vertical_velocity),
              interaction_factor(self, hour)),
     relative_vorticity |->
         FMul(FAdd(surface_result.relative_vorticity,
                   altitude_result.relative_vorticity),
              interaction_factor(self, hour)),
     hour |-> hour]

\* the loop of simulate_interaction from the hour after the last record
\* of `results` on: the scenario it leaves and the Vec
RECURSIVE simulate_loop(_, _, _)
simulate_loop(self, time_steps, results) ==
    IF ~(Len(results) < time_steps) THEN [self |-> self, results |-> results]
    ELSE LET hour == Len(results)
             s == develop_baroclinic_perturbation(self.surface_anomaly, hour)
             a == develop_baroclinic_perturbation(self.altitude_anomaly, hour)
             self2 == [self EXCEPT !.surface_anomaly = s.self,
                                   !.altitude_anomaly = a.self]
         IN  simulate_loop(self2, time_steps,
                 Append(results,
                        combined_result(self2, s.result, a.result, hour)))

\* BaroclinicCyclogenesis::simulate_interaction as one call
simulate_interaction(self, time_steps) ==
    simulate_loop(self, time_steps, <<>>)

(***************************************************************************)
(* Bounds and the inputs the model draws                                   *)
(***************************************************************************)
\* the largest time_steps passed to simulate_interaction
MaxSteps == 3

\* the largest hour passed to a direct develop_baroclinic_perturbation call
MaxHour == 1

Floats(S) == {F(x) : x \in S} \cup {NaN, Inf(FALSE), Inf(TRUE)}

\* k * 2^-1074 for 0 <= k < 2^31: the k-th subnormal number, 5e-324 for k = 1
Subnormal(k) == Finite(FALSE, <<k % Base, (k \div Base) % Base, k \div (Base * Base), 0>>, -1074)

\* 1e-200, 0x16687E92154EF7AC
TinyDelta == Finite(FALSE, <<14252, 5435, 10529, 1567>>, -717)

\* 1e-109, 0x294E0FB44F50586E
TinyLatitude == Finite(FALSE, <<6254, 15681, 15172, 1923>>, -415)

\* 44.69, a latitude at which the sine lies near the middle of two f64:
\* libms differ on it in the last bit
MidLatitude == Dec(4469, -2)

\* the valid latitudes at and next to the ends of the range and to 0, of
\* both signs: -0.0, 5e-324, whose product with PI / 180 underflows to zero,
\* and 1e-109 and -1e-109, whose products do not
Latitudes == Floats({-91, -90, 0, 90, 91}) \cup {MidLatitude, Zero(TRUE), Subnormal(1), TinyLatitude, FNeg(TinyLatitude)}

\* at the altitude 182 the exponential lies near the middle of two f64
Altitudes == Floats({-401, -400, 182, 20000, 20001})

Pressures == Floats({99, 100, 499, 500, 501, 1100, 1101})

\* 5e-324 and -5e-324, whose products underflow to zero, and 1e-200 and
\* -1e-200, whose products with a latitude of 1e-109 or more do not
Deltas == Floats({-51, -50, -8, 0, 5, 50, 51}) \cup {Subnormal(1), FNeg(Subnormal(1)), TinyDelta, FNeg(TinyDelta)}

\* 1.211e-320 is the subnormal 2451 * 2^-1074
SurfaceTemps == Floats({-50, 5, 60}) \cup {Subnormal(2451)}

AltitudeTemps == Floats({-8, 0, 50, 51})

ScenarioLatitudes == Floats({-90, 45, 91}) \cup {MidLatitude}

\* the arguments of the two scenarios built side by side
PairArgs == {<<F(5), F(-8), MidLatitude>>, <<F(-50), F(50), F(-90)>>, <<Subnormal(2451), F(0), F(45)>>, <<F(50), FNeg(TinyDelta), TinyLatitude>>}

Slots == {1, 2}

\* the two outcomes of sin differ at this latitude, those of exp at this
\* altitude
SinDiffers(latitude) == Sin(FDiv(FMul(latitude, PI), F(180)), TRUE) # Sin(FDiv(FMul(latitude, PI), F(180)), FALSE)

ExpDiffers(altitude) == Exp(FDiv(FNeg(altitude), F(8000)), TRUE) # Exp(FDiv(FNeg(altitude), F(8000)), FALSE)

\* a libm that returns the farther outcome differs from the one that
\* returns the nearer one only where the two outcomes differ: under it the
\* model draws the latitudes and the altitudes at which they do
Drawn(latitude, altitudes) ==
    /\ libm.sin = "far" => SinDiffers(latitude)
    /\ libm.exp = "far" => \E altitude \in altitudes : ExpDiffers(altitude)

(***************************************************************************)
(* State                                                                   *)
(***************************************************************************)
VARIABLES
    position_args, \* the arguments of a direct Position::new call
    position,      \* the result of that call
    anomaly,       \* a ThermalAnomaly built on it by ThermalAnomaly::new
    developed,     \* what the last develop call on that anomaly returned
    args,          \* per scenario, the arguments BaroclinicCyclogenesis::new got
    cyclogenesis,  \* per scenario, what BaroclinicCyclogenesis::new returned
    run,           \* per scenario, the simulate_interaction call in progress
    returned,      \* per scenario, what the last simulate_interaction returned
    last_hour      \* per scenario and anomaly, the hour of its last develop

vars == <<libm, position_args, position, anomaly, developed, args,
          cyclogenesis, run, returned, last_hour>>

\* the state of the directly used Position and ThermalAnomaly
direct == <<position_args, position, anomaly, developed>>

\* no value yet
Nothing == [ok |-> FALSE, err |-> [kind |-> "None", value |-> F(0)]]

NoResult == [vertical_velocity |-> F(0), relative_vorticity |-> F(0),
             hour |-> 0]

Never == 0 - 1

Idle == [pc |-> "idle", time_steps |-> 0, hour |-> 0, results |-> <<>>,
         surface_result |-> NoResult, altitude_result |-> NoResult,
         head |-> Nothing]

Init ==
    /\ libm \in [sin : {"nearest", "far"}, exp : {"nearest", "far"}]
    /\ position_args = <<F(0), F(0), F(0)>>
    /\ position = Nothing
    /\ anomaly = Nothing
    /\ developed = Nothing
    /\ args = [i \in Slots |-> Nothing]
    /\ cyclogenesis = [i \in Slots |-> Nothing]
    /\ run = [i \in Slots |-> Idle]
    /\ returned = [i \in Slots |-> Nothing]
    /\ last_hour = [i \in Slots |-> [surface |-> Never, altitude |-> Never]]

NoScenario == \A i \in Slots : cyclogenesis[i] = Nothing

(***************************************************************************)
(* Direct use of Position and ThermalAnomaly                               *)
(***************************************************************************)
PositionNew(latitude, altitude, pressure) ==
    /\ NoScenario
    /\ position = Nothing
    /\ position_args' = <<latitude, altitude, pressure>>
    /\ position' = Position_new(latitude, altitude, pressure)
    /\ UNCHANGED <<libm, anomaly, developed, args, cyclogenesis, run, returned,
                   last_hour>>

AnomalyNew(temperature_delta) ==
    /\ position.ok
    /\ anomaly = Nothing
    /\ anomaly' = ThermalAnomaly_new(temperature_delta, position.val,
                                     PhysicalConstants_default)
    /\ UNCHANGED <<libm, position_args, position, developed, args, cyclogenesis,
                   run, returned, last_hour>>

\* d is what develop_baroclinic_perturbation left and returned
AnomalyDeveloped(d) ==
    /\ anomaly' = Ok(d.self)
    /\ developed' = Ok(d.result)

DevelopAnomaly(hour) ==
    /\ anomaly.ok
    /\ AnomalyDeveloped(develop_baroclinic_perturbation(anomaly.val, hour))
    /\ UNCHANGED <<libm, position_args, position, args, cyclogenesis, run,
                   returned, last_hour>>

(***************************************************************************)
(* Scenarios                                                               *)
(***************************************************************************)
New(i, surface_temp, altitude_temp, latitude) ==
    /\ position = Nothing
    /\ cyclogenesis[i] = Nothing
    /\ args' = [args EXCEPT ![i] = Ok([surface_temp  |-> surface_temp,
                                       altitude_temp |-> altitude_temp,
                                       latitude      |-> latitude])]
    /\ cyclogenesis' = [cyclogenesis EXCEPT ![i] =
           BaroclinicCyclogenesis_new(surface_temp, altitude_temp, latitude)]
    /\ UNCHANGED <<libm, direct, run, returned, last_hour>>

\* simulate_interaction is entered: the Vec is empty and hour is 0
SimulateCall(i, time_steps) ==
    /\ cyclogenesis[i].ok
    /\ run[i].pc = "idle"
    /\ run' = [run EXCEPT ![i] =
           [Idle EXCEPT !.pc = IF 0 < time_steps THEN "surface" ELSE "return",
                        !.time_steps = time_steps]]
    /\ returned' = [returned EXCEPT ![i] = Nothing]
    /\ UNCHANGED <<libm, direct, args, cyclogenesis,
                   last_hour>>

\* d is what develop_baroclinic_perturbation left of the surface anomaly
\* and returned
SurfaceDeveloped(i, d) ==
    /\ cyclogenesis' = [cyclogenesis EXCEPT ![i] =
           Ok([@.val EXCEPT !.surface_anomaly = d.self])]
    /\ run' = [run EXCEPT ![i].pc = "altitude",
                          ![i].surface_result = d.result,
                          ![i].head = cyclogenesis[i]]

SurfaceDeveloped_shared(i, d) ==
    /\ cyclogenesis' = [cyclogenesis EXCEPT ![i] =
           Ok([@.val EXCEPT !.surface_anomaly = d.self,
                            !.altitude_anomaly.intensity = d.self.intensity])]
    /\ run' = [run EXCEPT ![i].pc = "altitude",
                          ![i].surface_result = d.result,
                          ![i].head = cyclogenesis[i]]

\* mutant: the two anomalies share one intensity
DevelopSurface_shared(i) ==
    /\ run[i].pc = "surface"
    /\ SurfaceDeveloped_shared(i, develop_baroclinic_perturbation(
           cyclogenesis[i].val.surface_anomaly, run[i].hour))
    /\ last_hour' = [last_hour EXCEPT ![i].surface = run[i].hour]
    /\ UNCHANGED <<libm, direct, args, returned>>

\* let surface_result = self.surface_anomaly.develop_baroclinic_perturbation(hour)
DevelopSurface(i) ==
    /\ run[i].pc = "surface"
    /\ SurfaceDeveloped(i, develop_baroclinic_perturbation(
           cyclogenesis[i].val.surface_anomaly, run[i].hour))
    /\ last_hour' = [last_hour EXCEPT ![i].surface = run[i].hour]
    /\ UNCHANGED <<libm, direct, args, returned>>

\* d is what develop_baroclinic_perturbation left of the altitude anomaly
\* and returned
AltitudeDeveloped(i, d) ==
    /\ cyclogenesis' = [cyclogenesis EXCEPT ![i] =
           Ok([@.val EXCEPT !.altitude_anomaly = d.self])]
    /\ run' = [run EXCEPT ![i].pc = "push",
                          ![i].altitude_result = d.result]

\* let altitude_result = self.altitude_anomaly.develop_baroclinic_perturbation(hour)
DevelopAltitude(i) ==
    /\ run[i].pc = "altitude"
    /\ AltitudeDeveloped(i, develop_baroclinic_perturbation(
           cyclogenesis[i].val.altitude_anomaly, run[i].hour))
    /\ last_hour' = [last_hour EXCEPT ![i].altitude = run[i].hour]
    /\ UNCHANGED <<libm, direct, args, returned>>

\* mutant: the loop runs over 0..=time_steps
Push_inclusive(i) ==
    /\ run[i].pc = "push"
    /\ run' = [run EXCEPT
           ![i].results = Append(@, combined_result(cyclogenesis[i].val,
                              run[i].surface_result, run[i].altitude_result,
                              run[i].hour)),
           ![i].hour = @ + 1,
           ![i].surface_result = NoResult,
           ![i].altitude_result = NoResult,
           ![i].pc = IF run[i].hour + 1 <= run[i].time_steps
                     THEN "surface" ELSE "return"]
    /\ UNCHANGED <<libm, direct, args, cyclogenesis, returned, last_hour>>

\* mutant: the Vec is a static that the calls in progress share
Push_static(i) ==
    /\ run[i].pc = "push"
    /\ run' = [j \in Slots |->
           IF j = i
           THEN [run[i] EXCEPT
                    !.results = Append(@, combined_result(cyclogenesis[i].val,
                                    run[i].surface_result,
                                    run[i].altitude_result, run[i].hour)),
                    !.hour = @ + 1,
                    !.surface_result = NoResult,
                    !.altitude_result = NoResult,
                    !.pc = IF run[i].hour + 1 < run[i].time_steps
                           THEN "surface" ELSE "return"]
           ELSE IF run[j].pc = "idle" THEN run[j]
           ELSE [run[j] EXCEPT
                    !.results = Append(@, combined_result(cyclogenesis[i].val,
                                    run[i].surface_result,
                                    run[i].altitude_result, run[i].hour))]]
    /\ UNCHANGED <<libm, direct, args, cyclogenesis, returned, last_hour>>

\* results.push(..), and the loop goes to its next hour or ends
Push(i) ==
    /\ run[i].pc = "push"
    /\ run' = [run EXCEPT
           ![i].results = Append(@, combined_result(cyclogenesis[i].val,
                              run[i].surface_result, run[i].altitude_result,
                              run[i].hour)),
           ![i].hour = @ + 1,
           ![i].surface_result = NoResult,
           ![i].altitude_result = NoResult,
           ![i].pc = IF run[i].hour + 1 < run[i].time_steps
                     THEN "surface" ELSE "return"]
    /\ UNCHANGED <<libm, direct, args, cyclogenesis,
                   returned, last_hour>>

\* simulate_interaction returns results
Return(i) ==
    /\ run[i].pc = "return"
    /\ returned' = [returned EXCEPT ![i] =
           Ok([time_steps |-> run[i].time_steps, results |-> run[i].results])]
    /\ run' = [run EXCEPT ![i] = Idle]
    /\ UNCHANGED <<libm, direct, args, cyclogenesis,
                   last_hour>>

\* a is the anomaly `which` as develop_baroclinic_perturbation left it
DirectDeveloped(i, which, a) ==
    cyclogenesis' = [cyclogenesis EXCEPT ![i] = Ok(
        IF which = "surface" THEN [@.val EXCEPT !.surface_anomaly = a]
        ELSE [@.val EXCEPT !.altitude_anomaly = a])]

\* a develop call on one anomaly of a scenario, before simulate_interaction
\* is first called on it; the DevelopmentResult is dropped
DevelopDirect(i, which, hour) ==
    /\ cyclogenesis[i].ok
    /\ run[i].pc = "idle"
    /\ returned[i] = Nothing
    /\ DirectDeveloped(i, which, develop_baroclinic_perturbation(
           IF which = "surface" THEN cyclogenesis[i].val.surface_anomaly
           ELSE cyclogenesis[i].val.altitude_anomaly, hour).self)
    /\ last_hour' = [last_hour EXCEPT ![i] =
           IF which = "surface" THEN [@ EXCEPT !.surface = hour]
           ELSE [@ EXCEPT !.altitude = hour]]
    /\ UNCHANGED <<libm, direct, args, run, returned>>

\* one object under construction at a time: a Position and a ThermalAnomaly
\* used directly, or one scenario
Next ==
    \/ \E latitude \in Latitudes, altitude \in Altitudes,
          pressure \in Pressures :
              PositionNew(latitude, altitude, pressure) /\ Drawn(latitude, {altitude})
    \/ \E temperature_delta \in Deltas : AnomalyNew(temperature_delta)
    \/ \E hour \in 0..MaxHour : DevelopAnomaly(hour)
    \/ \E surface_temp \in SurfaceTemps, altitude_temp \in AltitudeTemps,
          latitude \in ScenarioLatitudes :
              New(1, surface_temp, altitude_temp, latitude) /\ Drawn(latitude, {F(0), F(5000)})
    \/ \E time_steps \in 0..MaxSteps : SimulateCall(1, time_steps)
    \/ DevelopSurface(1)
    \/ DevelopAltitude(1)
    \/ Push(1)
    \/ Return(1)
    \/ \E which \in {"surface", "altitude"}, hour \in 0..MaxHour :
           DevelopDirect(1, which, hour)

Spec == Init /\ [][Next]_vars

\* two scenarios built by two calls of new with the same arguments: each
\* is a value of its own, so the steps of their simulate_interaction calls
\* come in any order, also in turn on two threads
NextPair ==
    \E i \in Slots :
        \/ \E a \in PairArgs :
               /\ i = 2 => args[1] = Ok([surface_temp |-> a[1], altitude_temp |-> a[2], latitude |-> a[3]])
               /\ New(i, a[1], a[2], a[3])
               /\ Drawn(a[3], {F(0), F(5000)})
        \/ \E time_steps \in 0..MaxSteps : SimulateCall(i, time_steps)
        \/ DevelopSurface(i)
        \/ DevelopAltitude(i)
        \/ Push(i)
        \/ Return(i)

SpecPair == Init /\ [][NextPair]_vars

(***************************************************************************)
(* Properties                                                              *)
(***************************************************************************)
\* x > 0, x < 0 and x # 0 for an f64: 0.0, -0.0 and NaN are none of them
Positive(x) == ~x.nan /\ ~x.neg /\ ~IsZero(x)

Negative(x) == ~x.nan /\ x.neg /\ ~IsZero(x)

NonZero(x) == Positive(x) \/ Negative(x)

\* |x|
Magnitude(x) == IF x.nan THEN NaN ELSE [x EXCEPT !.neg = FALSE]

\* x lies in the closed interval [lo, hi] (NaN lies in no interval)
InRange(lo, hi, x) == ~x.nan /\ FLe(F(lo), x) /\ FLe(x, F(hi))

\* C1: a simulate_interaction(N) call in progress has pushed one record per
\* hour done and is at a step of the loop while hour < N and at its return
\* once hour = N, and what it returns holds exactly N records, the record at
\* index i carrying hour i (so the hours are 0, 1, ..., N-1 in increasing
\* order), also for N = 0.
C1_HoursInOrder ==
    \A i \in Slots :
        /\ run[i].pc # "idle" =>
               /\ Len(run[i].results) = run[i].hour
               /\ run[i].hour < run[i].time_steps =>
                      run[i].pc \in {"surface", "altitude", "push"}
               /\ run[i].hour >= run[i].time_steps =>
                      run[i].pc = "return" /\ run[i].hour = run[i].time_steps
        /\ returned[i].ok =>
               /\ Len(returned[i].val.results) = returned[i].val.time_steps
               /\ \A k \in 1..Len(returned[i].val.results) :
                      returned[i].val.results[k].hour = k - 1

\* a call with the largest time_steps has returned all its records
C1_Witness ==
    /\ returned[1].ok
    /\ returned[1].val.time_steps = MaxSteps
    /\ Len(returned[1].val.results) = MaxSteps

\* what the specification requires of Position::new
Position_required(latitude, altitude, pressure) ==
    IF ~InRange(-90, 90, latitude) THEN Err("InvalidLatitude", latitude)
    ELSE IF ~InRange(-400, 20000, altitude)
    THEN Err("InvalidAltitude", altitude)
    ELSE IF ~InRange(100, 1100, pressure)
    THEN Err("InvalidPressure", pressure)
    ELSE Ok([latitude |-> latitude, altitude |-> altitude,
             pressure |-> pressure])

\* C2: Position::new succeeds exactly when latitude is in [-90, 90], altitude
\* in [-400, 20000] and pressure in [100, 1100]; otherwise it returns the
\* error of the first violated field (latitude, altitude, pressure) with the
\* offending value.
C2_PositionValidated ==
    position # Nothing =>
        position = Position_required(position_args[1], position_args[2],
                                     position_args[3])

\* what the specification requires of BaroclinicCyclogenesis::new, as far as
\* the error goes
New_required_error(a) ==
    IF ~InRange(-90, 90, a.latitude)
    THEN Err("InvalidLatitude", a.latitude)
    ELSE IF ~InRange(-50, 50, a.surface_temp)
    THEN Err("InvalidTemperature", a.surface_temp)
    ELSE IF ~InRange(-50, 50, a.altitude_temp)
    THEN Err("InvalidTemperature", a.altitude_temp)
    ELSE Nothing

\* C3: BaroclinicCyclogenesis::new returns InvalidLatitude(latitude) when the
\* latitude is outside [-90, 90], else InvalidTemperature(surface_temp) when
\* surface_temp is outside [-50, 50], else InvalidTemperature(altitude_temp)
\* when altitude_temp is outside [-50, 50], else it succeeds; a failure
\* carries no object; new(60, -8, 45) fails with InvalidTemperature(60);
\* InvalidAltitude and InvalidPressure are never returned.
C3_FirstErrorWins ==
    \A i \in Slots :
        args[i].ok =>
            LET required == New_required_error(args[i].val)
            IN  /\ (required = Nothing) <=> cyclogenesis[i].ok
                /\ required # Nothing => cyclogenesis[i] = required
                /\ ~cyclogenesis[i].ok =>
                       /\ DOMAIN cyclogenesis[i] = {"ok", "err"}
                       /\ cyclogenesis[i].err.kind
                              \notin {"InvalidAltitude", "InvalidPressure"}
                /\ args[i].val = [surface_temp |-> F(60),
                                  altitude_temp |-> F(0 - 8),
                                  latitude |-> F(45)] =>
                       cyclogenesis[i] = Err("InvalidTemperature", F(60))

\* new(60.0, -8.0, 45.0) has failed with InvalidTemperature(60.0)
C3_Witness ==
    /\ args[1] = Ok([surface_temp |-> F(60), altitude_temp |-> F(0 - 8),
                     latitude |-> F(45)])
    /\ cyclogenesis[1] = Err("InvalidTemperature", F(60))

\* C4 as stated: at hour 0 (intensity 1), at any valid latitude, an anomaly
\* with temperature_delta > 0 and pressure > 500 has relative_vorticity > 0,
\* and one with temperature_delta < 0 has relative_vorticity < 0.
C4_SignAtAnyLatitude ==
    (/\ anomaly.ok
     /\ developed.ok
     /\ developed.val.hour = 0
     /\ FGt(anomaly.val.position.pressure, F(500))) =>
        /\ anomaly.val.intensity = F(1)
        /\ Positive(anomaly.val.temperature_delta) =>
               Positive(developed.val.relative_vorticity)
        /\ Negative(anomaly.val.temperature_delta) =>
               Negative(developed.val.relative_vorticity)

\* 1e-310, 0x000012688B70E62B: from this magnitude of temperature_delta *
\* latitude on, no product or quotient behind relative_vorticity underflows
\* to zero
SignThreshold == Finite(FALSE, <<9771, 11715, 9864, 4>>, -1074)

\* C4, amended: at hour 0 (intensity 1) and pressure > 500 the sign of
\* relative_vorticity follows the hemisphere.  For temperature_delta > 0 it
\* is never negative at a latitude in (0, 90], never positive at a latitude
\* in [-90, 0) and zero at latitude 0; for temperature_delta < 0 it is never
\* positive in (0, 90], never negative in [-90, 0) and zero at latitude 0.
\* It is strictly of that sign whenever |temperature_delta * latitude| is at
\* least 1e-310.
C4_SignFollowsHemisphere ==
    (/\ anomaly.ok
     /\ developed.ok
     /\ developed.val.hour = 0
     /\ FGt(anomaly.val.position.pressure, F(500))) =>
        LET delta     == anomaly.val.temperature_delta
            latitude  == anomaly.val.position.latitude
            vorticity == developed.val.relative_vorticity
            north     == Positive(latitude)
            south     == Negative(latitude)
            clear     == FLe(SignThreshold, Magnitude(FMul(delta, latitude)))
        IN  /\ anomaly.val.intensity = F(1)
            /\ ~vorticity.nan
            /\ InRange(-90, 90, latitude)
            /\ IsZero(latitude) => IsZero(vorticity)
            /\ Positive(delta) /\ north => ~Negative(vorticity)
            /\ Positive(delta) /\ south => ~Positive(vorticity)
            /\ Negative(delta) /\ north => ~Positive(vorticity)
            /\ Negative(delta) /\ south => ~Negative(vorticity)
            /\ clear /\ Positive(delta) /\ north => Positive(vorticity)
            /\ clear /\ Positive(delta) /\ south => Negative(vorticity)
            /\ clear /\ Negative(delta) /\ north => Negative(vorticity)
            /\ clear /\ Negative(delta) /\ south => Positive(vorticity)

\* an anomaly of temperature_delta -1e-200 above 500 hPa, at latitude
\* -1e-109 (their product is just above the threshold), stepped at hour 0:
\* the vorticity is positive
C4_Witness ==
    /\ anomaly.ok
    /\ developed.ok
    /\ developed.val.hour = 0
    /\ FGt(anomaly.val.position.pressure, F(500))
    /\ anomaly.val.position.latitude = FNeg(TinyLatitude)
    /\ anomaly.val.temperature_delta = FNeg(TinyDelta)
    /\ FLe(SignThreshold, FMul(TinyDelta, TinyLatitude))
    /\ FLt(FMul(TinyDelta, TinyLatitude), FMul(F(100), SignThreshold))
    /\ Positive(developed.val.relative_vorticity)

\* C5: every record simulate_interaction returned equals the results of
\* develop(h) on the two anomalies, summed and multiplied by
\* 1.5 * (1 + h/24), baroclinic_zone being true, with hour = h.
C5_InteractionScaling ==
    \A i \in Slots :
        returned[i].ok =>
            \A k \in 1..Len(returned[i].val.results) :
                LET h      == k - 1
                    self   == cyclogenesis[i].val
                    record == returned[i].val.results[k]
                    s == develop_baroclinic_perturbation(
                             self.surface_anomaly, h).result
                    a == develop_baroclinic_perturbation(
                             self.altitude_anomaly, h).result
                    factor == FMul(Dec(15, -1),
                                   FAdd(F(1), FDiv(F(h), F(24))))
                IN  /\ self.baroclinic_zone
                    /\ record.hour = h
                    /\ record.vertical_velocity =
                           FMul(FAdd(s.vertical_velocity,
                                     a.vertical_velocity), factor)
                    /\ record.relative_vorticity =
                           FMul(FAdd(s.relative_vorticity,
                                     a.relative_vorticity), factor)

\* a returned record of hour 1, where the factor is not 1.5, that is not zero
C5_Witness ==
    /\ returned[1].ok
    /\ Len(returned[1].val.results) >= 2
    /\ NonZero(returned[1].val.results[2].vertical_velocity)
    /\ NonZero(returned[1].val.results[2].relative_vorticity)

\* the records of the call of scenario i: those pushed so far while it is
\* in progress, those it returned afterwards
Records(i) ==
    IF run[i].pc # "idle" THEN run[i].results
    ELSE IF returned[i].ok THEN returned[i].val.results
    ELSE <<>>

C7_CyclonicFixed ==
    /\ (anomaly # Nothing /\ ~anomaly.ok) =>
           ~InRange(-50, 50, anomaly.err.value)
    /\ anomaly.ok =>
           /\ InRange(-50, 50, anomaly.val.temperature_delta)
           /\ anomaly.val.is_cyclonic = Positive(anomaly.val.temperature_delta)
           /\ ~developed.ok => anomaly.val.intensity = F(1)
    /\ \A i \in Slots :
           cyclogenesis[i].ok =>
               LET s == cyclogenesis[i].val.surface_anomaly
                   a == cyclogenesis[i].val.altitude_anomaly
               IN  /\ s.temperature_delta = args[i].val.surface_temp
                   /\ a.temperature_delta = args[i].val.altitude_temp
                   /\ s.is_cyclonic = Positive(s.temperature_delta)
                   /\ a.is_cyclonic = Positive(a.temperature_delta)
                   /\ last_hour[i].surface = Never => s.intensity = F(1)
                   /\ last_hour[i].altitude = Never => a.intensity = F(1)

\* an anomaly of temperature_delta 0, stepped, is not cyclonic
C7_Witness ==
    /\ anomaly.ok
    /\ developed.ok
    /\ anomaly.val.temperature_delta = F(0)
    /\ ~anomaly.val.is_cyclonic

\* one hour of simulate_interaction with the two develop calls exchanged
swapped_hour(self, hour) ==
    LET a == develop_baroclinic_perturbation(self.altitude_anomaly, hour)
        self1 == [self EXCEPT !.altitude_anomaly = a.self]
        s == develop_baroclinic_perturbation(self1.surface_anomaly, hour)
        self2 == [self1 EXCEPT !.surface_anomaly = s.self]
    IN  [self   |-> self2,
         record |-> combined_result(self2, s.result, a.result, hour)]

\* a step that changes a scenario changes the intensity of one anomaly only
C8_Frame ==
    \A i \in Slots :
        (cyclogenesis[i].ok /\ cyclogenesis'[i] # cyclogenesis[i]) =>
            LET c  == cyclogenesis[i].val
                c2 == cyclogenesis'[i].val
            IN  /\ cyclogenesis'[i].ok
                /\ c2.baroclinic_zone = c.baroclinic_zone
                /\ c2.surface_anomaly =
                       [c.surface_anomaly EXCEPT
                            !.intensity = c2.surface_anomaly.intensity]
                /\ c2.altitude_anomaly =
                       [c.altitude_anomaly EXCEPT
                            !.intensity = c2.altitude_anomaly.intensity]
                /\ \/ c2.surface_anomaly = c.surface_anomaly
                   \/ c2.altitude_anomaly = c.altitude_anomaly
                /\ run[i].pc = "surface" =>
                       c2.altitude_anomaly = c.altitude_anomaly
                /\ run[i].pc = "altitude" =>
                       c2.surface_anomaly = c.surface_anomaly

\* after each hour of the loop, the record pushed and the scenario are those
\* the exchanged order gives from the state the hour began in
C8_OrderExchanged ==
    \A i \in Slots :
        (/\ run[i].pc \in {"surface", "return"}
         /\ run[i].head.ok
         /\ Len(run[i].results) > 0) =>
            LET n  == Len(run[i].results)
                sw == swapped_hour(run[i].head.val, n - 1)
            IN  /\ run[i].results[n] = sw.record
                /\ cyclogenesis[i].val = sw.self

\* C8: a develop call on one anomaly changes that anomaly's intensity and
\* nothing else of the scenario, and exchanging the two develop calls of an
\* hour gives the same record and the same scenario state.
C8_NoSharedState == [][C8_Frame]_vars /\ []C8_OrderExchanged

\* an hour is done whose surface step changed the surface intensity while
\* the altitude anomaly was still at another intensity
C8_Witness ==
    /\ run[1].pc = "altitude"
    /\ run[1].head.ok
    /\ run[1].head.val.surface_anomaly.intensity
           # cyclogenesis[1].val.surface_anomaly.intensity
    /\ cyclogenesis[1].val.altitude_anomaly.intensity
           # cyclogenesis[1].val.surface_anomaly.intensity

\* intensity after a develop at `hour` (or never: 1.0)
intensity_at(hour) ==
    IF hour = Never THEN F(1) ELSE FAdd(F(1), FDiv(F(hour), F(12)))

\* C9: an anomaly's intensity is 1 + h/12 for the hour h of its last develop
\* (1.0 if never stepped); what develop(hour) returns is what it returns on
\* the anomaly as constructed, whatever was stepped before; and what
\* simulate_interaction(N) returns, after any earlier calls, is what it
\* returns on the scenario as constructed.
C9_HistoryIndependent ==
    /\ anomaly.ok =>
           LET a == anomaly.val
               fresh == ThermalAnomaly_new(a.temperature_delta, a.position,
                                           a.constants).val
           IN  IF developed.ok
               THEN /\ a.intensity = intensity_at(developed.val.hour)
                    /\ developed.val = develop_baroclinic_perturbation(
                                           fresh, developed.val.hour).result
               ELSE a.intensity = intensity_at(Never)
    /\ \A i \in Slots :
           cyclogenesis[i].ok =>
               LET c == cyclogenesis[i].val
                   fresh == BaroclinicCyclogenesis_new(
                                args[i].val.surface_temp,
                                args[i].val.altitude_temp,
                                args[i].val.latitude).val
               IN  /\ c.surface_anomaly.intensity =
                          intensity_at(last_hour[i].surface)
                   /\ c.altitude_anomaly.intensity =
                          intensity_at(last_hour[i].altitude)
                   /\ run[i].pc \in {"altitude", "push"} =>
                          run[i].surface_result =
                              develop_baroclinic_perturbation(
                                  fresh.surface_anomaly, run[i].hour).result
                   /\ run[i].pc = "push" =>
                          run[i].altitude_result =
                              develop_baroclinic_perturbation(
                                  fresh.altitude_anomaly, run[i].hour).result
                   /\ returned[i].ok =>
                          returned[i].val.results =
                              simulate_interaction(fresh,
                                  returned[i].val.time_steps).results

\* hour 0 of a call on a scenario whose surface anomaly had been stepped to
\* the hour MaxHour before
C9_Witness ==
    /\ run[1].pc = "push"
    /\ run[1].hour = 0
    /\ run[1].head.ok
    /\ run[1].head.val.surface_anomaly.intensity = intensity_at(MaxHour)
    /\ cyclogenesis[1].val.surface_anomaly.intensity = intensity_at(0)
    /\ NonZero(run[1].surface_result.vertical_velocity)

\* the vertical velocity with the sign kept (flip = FALSE) or flipped
velocity_with_sign(self, flip) ==
    LET w == thermal_wind_of(self)
    IN  FMul(FMul(FMul(FMul(IF flip THEN FNeg(w) ELSE w, Dec(1, -1)),
                       pressure_factor_of(self)), altitude_factor_of(self)),
             self.intensity)

\* the relative vorticity with the given altitude factor
vorticity_with_factor(self, factor) ==
    LET b == FDiv(thermal_wind_of(self), RADIUS)
    IN  FMul(FMul(FMul(IF self.is_cyclonic THEN b ELSE FNeg(b),
                       self.intensity), factor), AMPLIFICATION)

\* result is what develop returns with that sign policy and altitude factor
develops_as(self, result, flip, factor) ==
    /\ result.vertical_velocity = velocity_with_sign(self, flip)
    /\ result.relative_vorticity = vorticity_with_factor(self, factor)

\* C10: develop keeps the velocity sign above 500 hPa and flips it at or
\* below 500 hPa, and applies the vorticity altitude factor 2.0 below
\* 500 hPa and 1.0 at or above; a scenario's anomalies sit at 1013 hPa and
\* 500 hPa, so the surface result keeps the sign, the altitude result flips
\* it, and both have the altitude factor 1.0.
C10_Boundary500 ==
    /\ (anomaly.ok /\ developed.ok) =>
           LET a == anomaly.val
               p == a.position.pressure
           IN  /\ p = F(500) => develops_as(a, developed.val, TRUE, F(1))
               /\ FGt(p, F(500)) =>
                      develops_as(a, developed.val, FALSE, F(1))
               /\ FLt(p, F(500)) =>
                      develops_as(a, developed.val, TRUE, F(2))
    /\ \A i \in Slots :
           cyclogenesis[i].ok =>
               LET c == cyclogenesis[i].val
               IN  /\ c.surface_anomaly.position.pressure = F(1013)
                   /\ c.altitude_anomaly.position.pressure = F(500)
                   /\ run[i].pc \in {"altitude", "push"} =>
                          develops_as(c.surface_anomaly,
                                      run[i].surface_result, FALSE, F(1))
                   /\ run[i].pc = "push" =>
                          develops_as(c.altitude_anomaly,
                                      run[i].altitude_result, TRUE, F(1))

\* an anomaly at exactly 500 hPa has been stepped, with a result that is
\* not zero
C10_Witness ==
    /\ anomaly.ok
    /\ developed.ok
    /\ anomaly.val.position.pressure = F(500)
    /\ NonZero(developed.val.vertical_velocity)
    /\ NonZero(developed.val.relative_vorticity)
====
